---- MODULE Spec2Model ----
(***************************************************************************)
(* Model of IdleDetectionService (src/src/services/idle-detection/         *)
(* IdleDetectionService.ts): the idle-detection state machine, its single  *)
(* countdown timer, pause/resume, and the asynchronous auto-prompt folder  *)
(* ingestion.                                                              *)
(*                                                                         *)
(* Time is discrete: one Tick is one second of wall-clock time and         *)
(* config.idleTimeoutMs is counted in seconds.  idleTimer holds the        *)
(* time remaining on the setTimeout that this.idleTimer refers to, or      *)
(* NoTimer; strays holds the timeouts still scheduled in the runtime that  *)
(* this.idleTimer no longer refers to.                                     *)
(***************************************************************************)
EXTENDS Integers, Sequences, FiniteSets, Bags, TLC

VARIABLES
    config,          \* this.config : IdleDetectionConfig
    workspacePath,   \* this.workspacePath
    isIdle,          \* this.isIdle
    isTaskActive,    \* this.isTaskActive
    isPaused,        \* this.isPaused
    pausedState,     \* this.pausedState (NoState = undefined); its field status is
                     \* history, the Status when pause() took the snapshot
    currentStatus,   \* this.currentStatus
    idleTimer,       \* time left on the setTimeout this.idleTimer refers to, or NoTimer
    strays,          \* bag of the times left on scheduled timeouts no handle refers to
    folder,          \* the auto-prompt folder on disk
    runs,            \* bag of processAutoPromptFolder invocations suspended at an await
    instance,        \* IdleDetectionService.instance: the object in the static slot,
                     \* 0 = undefined; the fields above are those of the object
                     \* constructed last
    created,         \* number of objects constructed so far; objects are numbered
    listeners,       \* the objects that have a listener registered
    lastPrompt,      \* argument of the autoPromptReady emitted by the latest handler run
    emitted,         \* events emitted by the latest handler run, in order
    step,            \* name of the latest handler that ran
    prevStatus,      \* currentStatus before the latest handler ran
    cycle,           \* history: the accepted finished signals feeding the pending countdown
    elapsed,         \* history: time since the first signal of cycle
    since,           \* history: time since the latest accepted finished signal
    idleCount,       \* history: idle() emissions since the last resetting operation
    noticeCount,     \* history: idle notifications since the last resetting operation
    working          \* history: the latest accepted adapter signal was a resumed one

\* this.lastIdleDetectionSource is assigned by the four adapter notifications and read
\* nowhere; it is not part of the state here.  this.outputChannel is a log sink.

progVars == <<config, workspacePath, isIdle, isTaskActive, isPaused, pausedState,
              currentStatus, idleTimer, strays, folder, runs>>
lifeVars == <<instance, created, listeners>>
histVars == <<lastPrompt, emitted, step, prevStatus, cycle, elapsed, since,
              idleCount, noticeCount, working>>
vars == <<config, workspacePath, isIdle, isTaskActive, isPaused, pausedState,
          currentStatus, idleTimer, strays, folder, runs, instance, created,
          listeners, lastPrompt, emitted, step,
          prevStatus, cycle, elapsed, since, idleCount, noticeCount, working>>

----------------------------------------------------------------------------
(* Bounds *)

MaxTimeout == 2
MaxRuns == 2
MaxInstances == 2

\* the documented range of idleTimeoutMs, 1000 to 300000 ms, in seconds
MinIdleTimeout == 1
MaxIdleTimeout == 300

----------------------------------------------------------------------------
(* Types *)

IdleDetectionMethod == {"auto", "button", "events", "hybrid"}
IdleStatus == {"active", "waiting", "idle", "paused"}

\* an optional value is a sequence of length at most one
NoTimer == <<>>
NoState == <<>>
NoPath == "undefined"
WorkspaceRoot == "/workspace"

PromptFolder == ".kilocode-prompts"

Min(a, b) == IF a < b THEN a ELSE b

Ev(name) == [ev |-> name, arg |-> "-"]
StatusChanged(status) == [ev |-> "statusChanged", arg |-> status]

Count(name, evs) == Cardinality({i \in DOMAIN evs : evs[i].ev = name})
Emits(name) == Count(name, emitted) > 0

----------------------------------------------------------------------------
(* Files and strings *)

\* a file name is its stem and its extension; file.endsWith(".txt")
TxtFile(stem) == [stem |-> stem, ext |-> ".txt"]
endsWithTxt(file) == file.ext = ".txt"

ReadmeName == TxtFile("README")
ReadmeContent == "# Kilo Code Auto-Prompt Folder ..."

Blank == {"", "  "}

\* a slip in the emptiness test: the content is not trimmed
trimNot(content) == content

\* content.trim()
trim(content) == IF content \in Blank THEN "" ELSE content

\* a string built from parts is the sequence of its parts:
\* `### Content from ${file}:\n${content}`
Section(file, content) == <<[lit |-> "### Content from "], [name |-> file],
                            [lit |-> ":\n"], [text |-> content]>>

\* parts.join(sep)
RECURSIVE join(_, _)
join(parts, sep) ==
    IF parts = <<>> THEN <<>>
    ELSE IF Tail(parts) = <<>> THEN Head(parts)
    ELSE Head(parts) \o sep \o join(Tail(parts), sep)

BlankLine == <<[lit |-> "\n\n"]>>

\* history: the folder can be listed and holds a readable .txt file whose content is
\* not only whitespace
Feeds(fd) ==
    /\ fd.exists
    /\ fd.listable
    /\ \E f \in DOMAIN fd.files :
          endsWithTxt(f) /\ fd.files[f].readable /\ trim(fd.files[f].content) # ""

----------------------------------------------------------------------------
(* Private helpers of the class *)

\* a slip in updateStatus: the event is emitted whether or not the status changes
updateStatusAlways(newStatus, before, after) ==
    /\ currentStatus' = newStatus
    /\ emitted' = before \o <<StatusChanged(newStatus)>> \o after

\* updateStatus(newStatus), with the events the handler emits before and after it
updateStatus(newStatus, before, after) ==
    /\ currentStatus' = newStatus
    /\ emitted' = before
                  \o (IF currentStatus # newStatus THEN <<StatusChanged(newStatus)>> ELSE <<>>)
                  \o after

shouldUseEventDetection ==
    config.detectionMethod \in {"events", "hybrid", "auto"}

\* a slip in shouldUseButtonDetection: the method is not consulted
shouldUseButtonDetectionAny ==
    config.detectionMethod \in {"button", "hybrid", "auto", "events"}

shouldUseButtonDetection ==
    config.detectionMethod \in {"button", "hybrid", "auto"}

\* a slip in startIdleTimer: a countdown already pending is left to run
startIdleTimerKeep ==
    /\ idleTimer' = IF idleTimer # NoTimer THEN idleTimer ELSE <<config.idleTimeoutMs>>
    /\ UNCHANGED strays

\* an assignment to this.idleTimer while it holds handle: a timeout that handle
\* refers to stays scheduled, with nothing left to cancel it
Orphaned(handle) == IF handle = NoTimer THEN EmptyBag ELSE SetToBag({handle[1]})

\* a slip in startIdleTimer: clearIdleTimer() is not called first
startIdleTimerNoClear ==
    /\ idleTimer' = <<config.idleTimeoutMs>>
    /\ strays' = strays (+) Orphaned(idleTimer)

\* startIdleTimer(): clearIdleTimer(), which leaves the handle undefined, then
\* this.idleTimer = setTimeout(..., config.idleTimeoutMs)
startIdleTimer ==
    /\ idleTimer' = <<config.idleTimeoutMs>>
    /\ strays' = strays (+) Orphaned(NoTimer)

\* a slip in clearIdleTimer: the pending timeout is not cleared
clearIdleTimerLeak == UNCHANGED <<idleTimer, strays>>

\* clearIdleTimer(): clearTimeout and forget the handle
clearIdleTimer ==
    /\ idleTimer' = NoTimer
    /\ UNCHANGED strays

\* a slip in processAutoPromptFolder: the folder setting and the workspace path are
\* not tested
processAutoPromptFolderAnyway ==
    IF isPaused
    THEN runs
    ELSE runs (+) SetToBag({[pc |-> "access", textFiles |-> <<>>, done |-> 0,
                             fileContents |-> <<>>, fed |-> Feeds(folder),
                             self |-> instance]})

\* processAutoPromptFolder() up to its first await (fs.access): the value of runs
\* after the call.  A suspended invocation is its position, the textFiles array, the
\* number of loop iterations done and fileContents; self is the object the
\* invocation runs on (its this); fed is history, whether the folder fed a prompt
\* when the invocation began
processAutoPromptFolder ==
    IF config.autoPromptFolder = "" \/ workspacePath = NoPath
    THEN runs
    ELSE IF isPaused
    THEN runs
    ELSE runs (+) SetToBag({[pc |-> "access", textFiles |-> <<>>, done |-> 0,
                             fileContents |-> <<>>, fed |-> Feeds(folder),
                             self |-> instance]})

showIdleNotification == <<Ev("showIdleNotification")>>

\* a slip in handleIdleTimeout: the task-active flag is not re-checked
handleIdleTimeoutNoActiveCheck ==
    IF isIdle
    THEN /\ UNCHANGED <<isIdle, currentStatus, runs>>
         /\ emitted' = <<>>
    ELSE /\ isIdle' = TRUE
         /\ updateStatus("idle", <<>>,
                <<Ev("idle")>> \o (IF config.enableNotifications
                                  THEN showIdleNotification ELSE <<>>))
         /\ runs' = processAutoPromptFolder

\* a slip in handleIdleTimeout: idle() is emitted before the status is updated
handleIdleTimeoutEmitFirst ==
    IF isIdle \/ isTaskActive
    THEN /\ UNCHANGED <<isIdle, currentStatus, runs>>
         /\ emitted' = <<>>
    ELSE /\ isIdle' = TRUE
         /\ updateStatus("idle", <<Ev("idle")>>,
                (IF config.enableNotifications THEN showIdleNotification ELSE <<>>))
         /\ runs' = processAutoPromptFolder

\* a slip in handleIdleTimeout: the idle flag is not re-checked
handleIdleTimeoutNoIdleCheck ==
    IF isTaskActive
    THEN /\ UNCHANGED <<isIdle, currentStatus, runs>>
         /\ emitted' = <<>>
    ELSE /\ isIdle' = TRUE
         /\ updateStatus("idle", <<>>,
                <<Ev("idle")>> \o (IF config.enableNotifications
                                  THEN showIdleNotification ELSE <<>>))
         /\ runs' = processAutoPromptFolder

\* handleIdleTimeout(), up to the first await of processAutoPromptFolder()
handleIdleTimeout ==
    IF isIdle \/ isTaskActive
    THEN /\ UNCHANGED <<isIdle, currentStatus, runs>>
         /\ emitted' = <<>>
    ELSE /\ isIdle' = TRUE
         /\ updateStatus("idle", <<>>,
                <<Ev("idle")>> \o (IF config.enableNotifications
                                  THEN showIdleNotification ELSE <<>>))
         /\ runs' = processAutoPromptFolder

----------------------------------------------------------------------------
(* History bookkeeping *)

\* no method of the object writes the static slot or registers a listener
Observe(name) ==
    /\ step' = name
    /\ prevStatus' = currentStatus
    /\ UNCHANGED lifeVars

\* the handler emits no autoPromptReady
NoPrompt == lastPrompt' = <<>>

\* a cycle is a countdown kept pending by accepted finished signals alone: the status
\* it started from, the adapters of its first and latest signal, the time of the
\* latest signal and the number of signals (3 stands for three or more)
\* since counts up to SinceCap, which stands for any longer time and for no finished
\* signal yet
SinceCap == MaxTimeout + 1
\* working is set by an accepted resumed signal, reset by an accepted finished
\* signal and by the reset of the flags on disabling, and left alone by everything
\* else
CycleReset == cycle' = <<>> /\ elapsed' = 0 /\ UNCHANGED <<since, working>>
CycleResumed == cycle' = <<>> /\ elapsed' = 0 /\ working' = TRUE /\ UNCHANGED since
CycleConfig ==
    cycle' = <<>> /\ elapsed' = 0 /\ working' = (working /\ config'.enabled)
    /\ UNCHANGED since
CycleKeep == UNCHANGED <<cycle, elapsed, since, working>>
CycleFinished(src) ==
    /\ IF cycle = <<>> \/ idleTimer = NoTimer
       THEN /\ cycle' = <<[from |-> currentStatus, first |-> src, last |-> src,
                           lastAt |-> 0, count |-> 1]>>
            /\ elapsed' = 0
       ELSE /\ cycle' = <<[cycle[1] EXCEPT !.last = src, !.lastAt = elapsed,
                                           !.count = Min(3, @ + 1)]>>
            /\ elapsed' = elapsed
    /\ since' = 0
    /\ working' = FALSE
ElapsedCap == 2 * MaxTimeout + 1

CountReset == idleCount' = 0 /\ noticeCount' = 0
CountKeep == UNCHANGED <<idleCount, noticeCount>>
CountEmitted ==
    /\ idleCount' = Min(2, idleCount + Count("idle", emitted'))
    /\ noticeCount' = Min(2, noticeCount + Count("showIdleNotification", emitted'))

\* a call that returns at its first guard
Ignored(name) ==
    /\ Observe(name)
    /\ emitted' = <<>>
    /\ NoPrompt
    /\ UNCHANGED <<progVars, cycle, elapsed, since, idleCount, noticeCount, working>>

----------------------------------------------------------------------------
(* Public operations *)

notifyTaskStarted ==
    IF ~config.enabled \/ ~shouldUseEventDetection
    THEN Ignored("notifyTaskStarted")
    ELSE /\ isTaskActive' = TRUE
         /\ isIdle' = FALSE
         /\ clearIdleTimer
         /\ updateStatus("active", <<>>, <<Ev("active")>>)
         /\ Observe("notifyTaskStarted")
         /\ CycleResumed /\ CountReset
         /\ NoPrompt
         /\ UNCHANGED <<config, workspacePath, isPaused, pausedState, folder, runs>>

notifyTaskCompletedOrMessageSent ==
    IF ~config.enabled \/ ~shouldUseEventDetection
    THEN Ignored("notifyTaskCompletedOrMessageSent")
    ELSE /\ isTaskActive' = FALSE
         /\ updateStatus("waiting", <<>>, <<>>)
         /\ startIdleTimer
         /\ Observe("notifyTaskCompletedOrMessageSent")
         /\ CycleFinished("events") /\ CountKeep
         /\ NoPrompt
         /\ UNCHANGED <<config, workspacePath, isIdle, isPaused, pausedState, folder, runs>>

notifyButtonVisible ==
    IF ~config.enabled \/ ~shouldUseButtonDetection
    THEN Ignored("notifyButtonVisible")
    ELSE /\ isTaskActive' = FALSE
         /\ updateStatus("waiting", <<>>, <<>>)
         /\ startIdleTimer
         /\ Observe("notifyButtonVisible")
         /\ CycleFinished("button") /\ CountKeep
         /\ NoPrompt
         /\ UNCHANGED <<config, workspacePath, isIdle, isPaused, pausedState, folder, runs>>

notifyButtonHidden ==
    IF ~config.enabled \/ ~shouldUseButtonDetection
    THEN Ignored("notifyButtonHidden")
    ELSE /\ isTaskActive' = TRUE
         /\ isIdle' = FALSE
         /\ clearIdleTimer
         /\ updateStatus("active", <<>>, <<Ev("active")>>)
         /\ Observe("notifyButtonHidden")
         /\ CycleResumed /\ CountReset
         /\ NoPrompt
         /\ UNCHANGED <<config, workspacePath, isPaused, pausedState, folder, runs>>

notifyUserActivity ==
    IF ~config.enabled
    THEN Ignored("notifyUserActivity")
    ELSE /\ isIdle' = FALSE
         /\ clearIdleTimer
         /\ emitted' = <<>>
         /\ Observe("notifyUserActivity")
         /\ CycleReset /\ CountReset
         /\ NoPrompt
         /\ UNCHANGED <<config, workspacePath, isTaskActive, isPaused, pausedState,
                        currentStatus, folder, runs>>

triggerIdle ==
    IF ~config.enabled
    THEN Ignored("triggerIdle")
    ELSE /\ BagCardinality(runs) < MaxRuns
         /\ handleIdleTimeout
         /\ Observe("triggerIdle")
         /\ CycleReset /\ CountEmitted
         /\ NoPrompt
         /\ UNCHANGED <<config, workspacePath, isTaskActive, isPaused, pausedState,
                        idleTimer, strays, folder>>

\* a slip in pause(): the paused flag is not tested first
pauseAgain ==
    /\ isPaused' = TRUE
    /\ pausedState' = <<[isIdle |-> isIdle, isTaskActive |-> isTaskActive,
                         status |-> currentStatus]>>
    /\ clearIdleTimer
    /\ updateStatus("paused", <<>>, <<Ev("paused")>>)
    /\ Observe("pause")
    /\ CycleReset /\ CountReset
    /\ NoPrompt
    /\ UNCHANGED <<config, workspacePath, isIdle, isTaskActive, folder, runs>>

pause ==
    IF isPaused
    THEN Ignored("pause")
    ELSE /\ isPaused' = TRUE
         /\ pausedState' = <<[isIdle |-> isIdle, isTaskActive |-> isTaskActive,
                         status |-> currentStatus]>>
         /\ clearIdleTimer
         /\ updateStatus("paused", <<>>, <<Ev("paused")>>)
         /\ Observe("pause")
         /\ CycleReset /\ CountReset
         /\ NoPrompt
         /\ UNCHANGED <<config, workspacePath, isIdle, isTaskActive, folder, runs>>

\* resume() that sets Status from the snapshot but keeps the flags the signals
\* received while paused have left
resumeKeepFlags ==
    IF ~isPaused
    THEN Ignored("resume")
    ELSE /\ isPaused' = FALSE
         /\ IF pausedState # NoState
            THEN /\ pausedState' = NoState
                 /\ UNCHANGED <<isIdle, isTaskActive>>
                 /\ IF pausedState[1].isIdle
                    THEN /\ updateStatus("idle", <<>>, <<Ev("idle"), Ev("resumed")>>)
                         /\ UNCHANGED <<idleTimer, strays>>
                    ELSE IF ~pausedState[1].isTaskActive
                    THEN /\ updateStatus("waiting", <<>>, <<Ev("resumed")>>)
                         /\ startIdleTimer
                    ELSE /\ updateStatus("active", <<>>, <<Ev("resumed")>>)
                         /\ UNCHANGED <<idleTimer, strays>>
            ELSE /\ updateStatus("active", <<>>, <<Ev("resumed")>>)
                 /\ UNCHANGED <<isIdle, isTaskActive, pausedState, idleTimer, strays>>
         /\ Observe("resume")
         /\ CycleReset /\ CountReset
         /\ NoPrompt
         /\ UNCHANGED <<config, workspacePath, folder, runs>>

\* resume() that leaves the snapshot in place
resumeKeepSnapshot ==
    IF ~isPaused
    THEN Ignored("resume")
    ELSE /\ isPaused' = FALSE
         /\ IF pausedState # NoState
            THEN /\ isIdle' = pausedState[1].isIdle
                 /\ isTaskActive' = pausedState[1].isTaskActive
                 /\ UNCHANGED pausedState
                 /\ IF pausedState[1].isIdle
                    THEN /\ updateStatus("idle", <<>>, <<Ev("idle"), Ev("resumed")>>)
                         /\ UNCHANGED <<idleTimer, strays>>
                    ELSE IF ~pausedState[1].isTaskActive
                    THEN /\ updateStatus("waiting", <<>>, <<Ev("resumed")>>)
                         /\ startIdleTimer
                    ELSE /\ updateStatus("active", <<>>, <<Ev("resumed")>>)
                         /\ UNCHANGED <<idleTimer, strays>>
            ELSE /\ updateStatus("active", <<>>, <<Ev("resumed")>>)
                 /\ UNCHANGED <<isIdle, isTaskActive, pausedState, idleTimer, strays>>
         /\ Observe("resume")
         /\ CycleReset /\ CountReset
         /\ NoPrompt
         /\ UNCHANGED <<config, workspacePath, folder, runs>>

resume ==
    IF ~isPaused
    THEN Ignored("resume")
    ELSE /\ isPaused' = FALSE
         /\ IF pausedState # NoState
            THEN /\ isIdle' = pausedState[1].isIdle
                 /\ isTaskActive' = pausedState[1].isTaskActive
                 /\ pausedState' = NoState
                 /\ IF pausedState[1].isIdle
                    THEN /\ updateStatus("idle", <<>>, <<Ev("idle"), Ev("resumed")>>)
                         /\ UNCHANGED <<idleTimer, strays>>
                    ELSE IF ~pausedState[1].isTaskActive
                    THEN /\ updateStatus("waiting", <<>>, <<Ev("resumed")>>)
                         /\ startIdleTimer
                    ELSE /\ updateStatus("active", <<>>, <<Ev("resumed")>>)
                         /\ UNCHANGED <<idleTimer, strays>>
            ELSE /\ updateStatus("active", <<>>, <<Ev("resumed")>>)
                 /\ UNCHANGED <<isIdle, isTaskActive, pausedState, idleTimer, strays>>
         /\ Observe("resume")
         /\ CycleReset /\ CountReset
         /\ NoPrompt
         /\ UNCHANGED <<config, workspacePath, folder, runs>>

\* updateConfig(partial): partial is a record over a subset of the config fields
updateConfig(partial) ==
    /\ config' = [k \in DOMAIN config |-> IF k \in DOMAIN partial THEN partial[k] ELSE config[k]]
    /\ IF ~config'.enabled
       THEN /\ clearIdleTimer
            /\ isIdle' = FALSE
            /\ isTaskActive' = FALSE
       ELSE UNCHANGED <<idleTimer, strays, isIdle, isTaskActive>>
    /\ emitted' = <<>>
    /\ Observe("updateConfig")
    /\ CycleConfig /\ CountReset
    /\ NoPrompt
    /\ UNCHANGED <<workspacePath, isPaused, pausedState, currentStatus, folder, runs>>

----------------------------------------------------------------------------
(* The timer *)

\* the scheduled timeouts that are due: the one this.idleTimer refers to, a stray
Due == (IF idleTimer = <<0>> THEN {"handle"} ELSE {})
       \cup (IF BagIn(0, strays) THEN {"stray"} ELSE {})

\* the setTimeout callback of startIdleTimer; a timeout that has run is no longer
\* scheduled
TimerFire ==
    /\ BagCardinality(runs) < MaxRuns
    /\ \E due \in Due :
           IF due = "handle"
           THEN idleTimer' = NoTimer /\ UNCHANGED strays
           ELSE strays' = strays (-) SetToBag({0}) /\ UNCHANGED idleTimer
    /\ handleIdleTimeout
    /\ Observe("timerFire")
    /\ CycleKeep /\ CountEmitted
    /\ NoPrompt
    /\ UNCHANGED <<config, workspacePath, isTaskActive, isPaused, pausedState, folder>>

\* one unit of time passes on every scheduled timeout; a due timeout fires before
\* more time passes
Tick ==
    /\ Due = {}
    /\ idleTimer # NoTimer \/ strays # EmptyBag
    /\ idleTimer' = IF idleTimer = NoTimer THEN NoTimer ELSE <<idleTimer[1] - 1>>
    /\ strays' = [t \in {u - 1 : u \in BagToSet(strays)} |-> strays[t + 1]]
    /\ elapsed' = IF cycle # <<>> THEN Min(ElapsedCap, elapsed + 1) ELSE elapsed
    /\ since' = Min(SinceCap, since + 1)
    /\ emitted' = <<>>
    /\ Observe("tick")
    /\ UNCHANGED <<config, workspacePath, isIdle, isTaskActive, isPaused, pausedState,
                   currentStatus, folder, runs, cycle, idleCount, noticeCount,
                   working>>
    /\ NoPrompt

----------------------------------------------------------------------------
(* The auto-prompt folder and the asynchronous part of processAutoPromptFolder *)

\* all orders in which readdir may list a set of names
RECURSIVE Listings(_)
Listings(names) ==
    IF names = {} THEN {<<>>}
    ELSE UNION {{<<n>> \o rest : rest \in Listings(names \ {n})} : n \in names}

\* files.filter(...)
RECURSIVE filter(_)
filter(files) ==
    IF files = <<>> THEN <<>>
    ELSE (IF endsWithTxt(Head(files)) THEN <<Head(files)>> ELSE <<>>) \o filter(Tail(files))

\* the bag of suspended invocations once r has run on to r2, or has returned
Continue(r, r2) == (runs (-) SetToBag({r})) (+) SetToBag({r2})
Return(r) == runs (-) SetToBag({r})

IngestObserve(name) ==
    /\ Observe(name)
    /\ CycleKeep /\ CountKeep
    /\ UNCHANGED <<config, workspacePath, isIdle, isTaskActive, isPaused, pausedState,
                   currentStatus, idleTimer, strays>>

\* await fs.access(folderPath)
IngestAccess(r) ==
    /\ r.pc = "access"
    /\ runs' = Continue(r, [r EXCEPT !.pc = IF folder.exists THEN "readdir" ELSE "mkdir"])
    /\ emitted' = <<>>
    /\ IngestObserve("ingestAccess")
    /\ NoPrompt
    /\ UNCHANGED folder

\* await fs.mkdir(folderPath, { recursive: true })
IngestMkdir(r) ==
    /\ r.pc = "mkdir"
    /\ IF folder.writable
       THEN /\ folder' = [folder EXCEPT !.exists = TRUE]
            /\ runs' = Continue(r, [r EXCEPT !.pc = "writeFile"])
       ELSE /\ runs' = Return(r)
            /\ UNCHANGED folder
    /\ emitted' = <<>>
    /\ IngestObserve("ingestMkdir")
    /\ NoPrompt

\* a slip after fs.writeFile: the run goes on to list the folder it has just created
IngestWriteFileGoOn(r) ==
    /\ r.pc = "writeFile"
    /\ folder' = [folder EXCEPT !.files =
                     [f \in DOMAIN folder.files \cup {ReadmeName} |->
                         IF f = ReadmeName
                         THEN [content |-> ReadmeContent, readable |-> TRUE]
                         ELSE folder.files[f]]]
    /\ runs' = Continue(r, [r EXCEPT !.pc = "readdir"])
    /\ emitted' = <<>>
    /\ IngestObserve("ingestWriteFile")
    /\ NoPrompt

\* await fs.writeFile(readmePath, readmeContent, "utf-8"), then return
IngestWriteFile(r) ==
    /\ r.pc = "writeFile"
    /\ folder' = [folder EXCEPT !.files =
                     [f \in DOMAIN folder.files \cup {ReadmeName} |->
                         IF f = ReadmeName
                         THEN [content |-> ReadmeContent, readable |-> TRUE]
                         ELSE folder.files[f]]]
    /\ runs' = Return(r)
    /\ emitted' = <<>>
    /\ IngestObserve("ingestWriteFile")
    /\ NoPrompt

\* await fs.readdir(folderPath), the filter and the length check
IngestReaddir(r) ==
    /\ r.pc = "readdir"
    /\ IF ~folder.listable
       THEN runs' = Return(r)
       ELSE \E files \in Listings(DOMAIN folder.files) :
                LET textFiles == filter(files) IN
                IF Len(textFiles) = 0
                THEN runs' = Return(r)
                ELSE runs' = Continue(r, [r EXCEPT !.pc = "readFile", !.textFiles = textFiles])
    /\ emitted' = <<>>
    /\ IngestObserve("ingestReaddir")
    /\ NoPrompt
    /\ UNCHANGED folder

\* another behaviour of the end of the run: the paused flag is tested again before
\* the emit
IngestReadFileQuiet(r) ==
    /\ r.pc = "readFile"
    /\ LET file == r.textFiles[r.done + 1]
           readable == file \in DOMAIN folder.files /\ folder.files[file].readable
           fileContents ==
               IF readable /\ trim(folder.files[file].content) # ""
               THEN Append(r.fileContents, Section(file, folder.files[file].content))
               ELSE r.fileContents
       IN  IF r.done + 1 < Len(r.textFiles)
           THEN /\ runs' = Continue(r, [r EXCEPT !.done = @ + 1, !.fileContents = fileContents])
                /\ emitted' = <<>>
                /\ NoPrompt
           ELSE /\ runs' = Return(r)
                /\ IF Len(fileContents) = 0 \/ isPaused
                   THEN /\ emitted' = <<>>
                        /\ NoPrompt
                   ELSE /\ emitted' = <<Ev("autoPromptReady")>>
                        /\ lastPrompt' = join(fileContents, BlankLine)
    /\ IngestObserve("ingestReadFile")
    /\ UNCHANGED folder

\* a slip in the loop: no try/catch around fs.readFile, a failed read ends the run in
\* the outer catch
IngestReadFileNoCatch(r) ==
    /\ r.pc = "readFile"
    /\ LET file == r.textFiles[r.done + 1]
           readable == file \in DOMAIN folder.files /\ folder.files[file].readable
           fileContents ==
               IF trim(folder.files[file].content) # ""
               THEN Append(r.fileContents, Section(file, folder.files[file].content))
               ELSE r.fileContents
       IN  IF ~readable
           THEN /\ runs' = Return(r)
                /\ emitted' = <<>>
                /\ NoPrompt
           ELSE IF r.done + 1 < Len(r.textFiles)
           THEN /\ runs' = Continue(r, [r EXCEPT !.done = @ + 1, !.fileContents = fileContents])
                /\ emitted' = <<>>
                /\ NoPrompt
           ELSE /\ runs' = Return(r)
                /\ IF Len(fileContents) = 0
                   THEN /\ emitted' = <<>>
                        /\ NoPrompt
                   ELSE /\ emitted' = <<Ev("autoPromptReady")>>
                        /\ lastPrompt' = join(fileContents, BlankLine)
    /\ IngestObserve("ingestReadFile")
    /\ UNCHANGED folder

\* one iteration of the loop: await fs.readFile(filePath, "utf-8"); after the last
\* iteration, the join and the emit
IngestReadFile(r) ==
    /\ r.pc = "readFile"
    /\ LET file == r.textFiles[r.done + 1]
           readable == file \in DOMAIN folder.files /\ folder.files[file].readable
           fileContents ==
               IF readable /\ trim(folder.files[file].content) # ""
               THEN Append(r.fileContents, Section(file, folder.files[file].content))
               ELSE r.fileContents
       IN  IF r.done + 1 < Len(r.textFiles)
           THEN /\ runs' = Continue(r, [r EXCEPT !.done = @ + 1, !.fileContents = fileContents])
                /\ emitted' = <<>>
                /\ NoPrompt
           ELSE /\ runs' = Return(r)
                /\ IF Len(fileContents) = 0
                   THEN /\ emitted' = <<>>
                        /\ NoPrompt
                   ELSE /\ emitted' = <<Ev("autoPromptReady")>>
                        /\ lastPrompt' = join(fileContents, BlankLine)
    /\ IngestObserve("ingestReadFile")
    /\ UNCHANGED folder

\* the user saves a new file into the folder, as the README asks
addFile(file, content) ==
    /\ folder.exists
    /\ file \notin DOMAIN folder.files
    /\ folder' = [folder EXCEPT !.files =
                     [f \in DOMAIN folder.files \cup {file} |->
                         IF f = file
                         THEN [content |-> content, readable |-> TRUE]
                         ELSE folder.files[f]]]
    /\ emitted' = <<>>
    /\ Observe("addFile")
    /\ CycleKeep /\ CountKeep
    /\ NoPrompt
    /\ UNCHANGED <<config, workspacePath, isIdle, isTaskActive, isPaused, pausedState,
                   currentStatus, idleTimer, strays, runs>>

updateWorkspacePath(path) ==
    /\ workspacePath' = path
    /\ emitted' = <<>>
    /\ Observe("updateWorkspacePath")
    /\ CycleKeep /\ CountKeep
    /\ NoPrompt
    /\ UNCHANGED <<config, isIdle, isTaskActive, isPaused, pausedState, currentStatus,
                   idleTimer, strays, folder, runs>>

----------------------------------------------------------------------------
(* The singleton slot and the listeners *)

\* on(event, listener), inherited from EventEmitter, called on the object in the
\* slot
on ==
    /\ instance # 0
    /\ listeners' = listeners \cup {instance}
    /\ emitted' = <<>>
    /\ step' = "on" /\ prevStatus' = currentStatus
    /\ CycleKeep /\ CountKeep
    /\ NoPrompt
    /\ UNCHANGED <<progVars, instance, created>>

\* dispose() that leaves the listeners registered
disposeKeepListeners ==
    /\ instance # 0
    /\ clearIdleTimer
    /\ instance' = 0
    /\ emitted' = <<>>
    /\ step' = "dispose" /\ prevStatus' = currentStatus
    /\ CycleReset /\ CountKeep
    /\ NoPrompt
    /\ UNCHANGED <<config, workspacePath, isIdle, isTaskActive, isPaused, pausedState,
                   currentStatus, folder, runs, created, listeners>>

\* dispose(), called on the object in the slot
dispose ==
    /\ instance # 0
    /\ clearIdleTimer
    /\ listeners' = listeners \ {instance}
    /\ instance' = 0
    /\ emitted' = <<>>
    /\ step' = "dispose" /\ prevStatus' = currentStatus
    /\ CycleReset /\ CountKeep
    /\ NoPrompt
    /\ UNCHANGED <<config, workspacePath, isIdle, isTaskActive, isPaused, pausedState,
                   currentStatus, folder, runs, created>>

\* getInstance(config?, outputChannel?, workspacePath?): args is <<>> for a call
\* without a configuration.  An object is constructed when the slot is empty and
\* a configuration is passed; the invocations the former objects left in flight
\* go on.  The call returns the slot and changes nothing else.
getInstance(args) ==
    /\ IF instance = 0 /\ args # <<>>
       THEN /\ created < MaxInstances
            /\ created' = created + 1
            /\ instance' = created + 1
            /\ config' = args[1].config
            /\ workspacePath' = args[1].workspacePath
            /\ isIdle' = FALSE
            /\ isTaskActive' = FALSE
            /\ isPaused' = FALSE
            /\ pausedState' = NoState
            /\ currentStatus' = "active"
            /\ idleTimer' = NoTimer
            /\ prevStatus' = "active"
            /\ cycle' = <<>> /\ elapsed' = 0 /\ since' = SinceCap /\ working' = FALSE
            /\ CountReset
            /\ UNCHANGED <<strays, folder, runs, listeners>>
       ELSE /\ prevStatus' = currentStatus
            /\ CycleKeep /\ CountKeep
            /\ UNCHANGED <<progVars, lifeVars>>
    /\ emitted' = <<>>
    /\ step' = IF args = <<>> THEN "getInstance()" ELSE "getInstance(config)"
    /\ NoPrompt

----------------------------------------------------------------------------
(* Specification *)

Timeouts == 1..MaxTimeout

OneFile == [f \in {TxtFile("a")} |-> [content |-> "hello", readable |-> TRUE]]
NoFiles == [f \in {} |-> [content |-> "", readable |-> TRUE]]

\* the state after the constructor, for a configuration, a workspace path and a
\* folder among the given ones
InitWith(configs, paths, folders) ==
    /\ config \in configs
    /\ workspacePath \in paths
    /\ isIdle = FALSE
    /\ isTaskActive = FALSE
    /\ isPaused = FALSE
    /\ pausedState = NoState
    /\ currentStatus = "active"
    /\ idleTimer = NoTimer
    /\ strays = EmptyBag
    /\ folder \in folders
    /\ runs = EmptyBag
    /\ instance = 1
    /\ created = 1
    /\ listeners = {1}
    /\ lastPrompt = <<>>
    /\ emitted = <<>>
    /\ step = "constructor"
    /\ prevStatus = "active"
    /\ cycle = <<>>
    /\ elapsed = 0
    /\ since = SinceCap
    /\ idleCount = 0
    /\ noticeCount = 0
    /\ working = FALSE

Signals ==
    \/ notifyTaskStarted
    \/ notifyTaskCompletedOrMessageSent
    \/ notifyButtonVisible
    \/ notifyButtonHidden
    \/ notifyUserActivity

Commands ==
    \/ triggerIdle
    \/ pause
    \/ resume

Timer ==
    \/ TimerFire
    \/ Tick

Ingestion ==
    \/ \E r \in BagToSet(runs) : IngestAccess(r)
    \/ \E r \in BagToSet(runs) : IngestMkdir(r)
    \/ \E r \in BagToSet(runs) : IngestWriteFile(r)
    \/ \E r \in BagToSet(runs) : IngestReaddir(r)
    \/ \E r \in BagToSet(runs) : IngestReadFile(r)

(* The arbiter: every detection method and timeout, no auto-prompt folder configured *)

ArbiterConfigs ==
    [enabled : BOOLEAN, detectionMethod : IdleDetectionMethod, idleTimeoutMs : Timeouts,
     enableNotifications : BOOLEAN, autoPromptFolder : {""}, showStatusBar : {TRUE}]

ArbiterPartials ==
    {[enabled |-> b] : b \in BOOLEAN}
    \cup {[detectionMethod |-> m] : m \in IdleDetectionMethod}

Init == InitWith(ArbiterConfigs, {NoPath}, {[exists |-> FALSE, writable |-> TRUE,
                                             listable |-> TRUE, files |-> NoFiles]})

Next ==
    \/ Signals
    \/ Commands
    \/ Timer
    \/ \E partial \in ArbiterPartials : updateConfig(partial)

Spec == Init /\ [][Next]_vars

(* The arbiter with ingestion: an auto-prompt folder is configured *)

IngestConfigs ==
    [enabled : {TRUE}, detectionMethod : {"button"}, idleTimeoutMs : {1},
     enableNotifications : {FALSE}, autoPromptFolder : {PromptFolder}, showStatusBar : {TRUE}]

IngestFolders ==
    { [exists |-> FALSE, writable |-> TRUE, listable |-> TRUE, files |-> NoFiles],
      [exists |-> TRUE, writable |-> TRUE, listable |-> TRUE, files |-> OneFile] }

InitIngest == InitWith(IngestConfigs, {NoPath, WorkspaceRoot}, IngestFolders)

NextIngest ==
    \/ notifyButtonVisible
    \/ notifyButtonHidden
    \/ notifyUserActivity
    \/ Commands
    \/ Timer
    \/ Ingestion
    \/ updateWorkspacePath(WorkspaceRoot)

SpecIngest == InitIngest /\ [][NextIngest]_vars

(* Ingestion over folders of several files, with the failures of the file system *)

FolderConfigs ==
    [enabled : {TRUE}, detectionMethod : {"button"}, idleTimeoutMs : {1},
     enableNotifications : {FALSE}, autoPromptFolder : {"", PromptFolder},
     showStatusBar : {TRUE}]

NotesFile == [stem |-> "notes", ext |-> ".md"]

File(content, readable) == [content |-> content, readable |-> readable]

\* the files of a folder, from the content and readability of a.txt and b.txt, with
\* or without notes.md
Files(a, b, withNotes) ==
    [f \in {TxtFile("a"), TxtFile("b")} \cup (IF withNotes THEN {NotesFile} ELSE {}) |->
        IF f = TxtFile("a") THEN a ELSE IF f = TxtFile("b") THEN b ELSE File("memo", TRUE)]

Existing(listable, files) ==
    [exists |-> TRUE, writable |-> TRUE, listable |-> listable, files |-> files]

FolderCases ==
    { [exists |-> FALSE, writable |-> TRUE, listable |-> TRUE, files |-> NoFiles],
      [exists |-> FALSE, writable |-> FALSE, listable |-> TRUE, files |-> NoFiles],
      Existing(TRUE, NoFiles),
      Existing(FALSE, OneFile),
      Existing(TRUE, Files(File("hello", TRUE), File("world", TRUE), TRUE)),
      Existing(TRUE, Files(File("  ", TRUE), File("world", TRUE), FALSE)),
      Existing(TRUE, Files(File("hello", FALSE), File("world", TRUE), FALSE)),
      Existing(TRUE, Files(File("", TRUE), File("  ", TRUE), TRUE)) }

Additions == { <<TxtFile("a"), "hello">>, <<TxtFile("a"), "  ">> }

InitFolder == InitWith(FolderConfigs, {NoPath, WorkspaceRoot}, FolderCases)

NextFolder ==
    \/ notifyButtonVisible
    \/ notifyUserActivity
    \/ triggerIdle
    \/ Timer
    \/ Ingestion
    \/ \E add \in Additions : addFile(add[1], add[2])

SpecFolder == InitFolder /\ [][NextFolder]_vars

(* The arbiter under the event adapter, with timeouts in and out of the documented range *)

RangeTimeouts == {MinIdleTimeout - 1, MinIdleTimeout, MaxIdleTimeout + 1}

RangeConfigs ==
    [enabled : {TRUE}, detectionMethod : {"events"}, idleTimeoutMs : RangeTimeouts,
     enableNotifications : {FALSE}, autoPromptFolder : {""}, showStatusBar : {TRUE}]

RangePartials == {[idleTimeoutMs |-> t] : t \in RangeTimeouts}

InitRange == InitWith(RangeConfigs, {NoPath}, {[exists |-> FALSE, writable |-> TRUE,
                                                listable |-> TRUE, files |-> NoFiles]})

NextRange ==
    \/ notifyTaskStarted
    \/ notifyTaskCompletedOrMessageSent
    \/ Timer
    \/ \E partial \in RangePartials : updateConfig(partial)

SpecRange == InitRange /\ [][NextRange]_vars

(* The life of the singleton: the button adapter with ingestion, dispose and getInstance *)

LifeConfigs ==
    [enabled : {TRUE}, detectionMethod : {"button"}, idleTimeoutMs : {1},
     enableNotifications : BOOLEAN, autoPromptFolder : {PromptFolder},
     showStatusBar : {TRUE}]

LifeArgs ==
    {<<>>} \cup {<<[config |-> c, workspacePath |-> WorkspaceRoot]>> : c \in LifeConfigs}

InitLife == InitWith(LifeConfigs, {WorkspaceRoot}, IngestFolders)

\* the methods are called on the object in the slot
NextLife ==
    \/ instance # 0 /\ notifyButtonVisible
    \/ on
    \/ dispose
    \/ \E args \in LifeArgs : getInstance(args)
    \/ Timer
    \/ Ingestion

SpecLife == InitLife /\ [][NextLife]_vars

----------------------------------------------------------------------------
(* Properties *)

FinishedSteps == {"notifyButtonVisible", "notifyTaskCompletedOrMessageSent"}
ResumedSteps == {"notifyButtonHidden", "notifyTaskStarted"}
ButtonSteps == {"notifyButtonVisible", "notifyButtonHidden"}
EventSteps == {"notifyTaskStarted", "notifyTaskCompletedOrMessageSent"}

\* the countdown that has just fired was started by an accepted finished signal in an
\* enabled, non-paused state, and only time has passed since
QuietTimeout ==
    /\ step = "timerFire"
    /\ config.enabled
    /\ ~isPaused
    /\ cycle # <<>>

\* C1: when an accepted finished signal, received in an enabled non-paused state, is
\* followed by nothing but the passing of the timeout, the timer callback sets Status
\* to Idle and emits idle() exactly once.
FinishedThenTimeoutIsIdle ==
    QuietTimeout => currentStatus = "idle" /\ Count("idle", emitted) = 1

\* C2: an accepted resumed signal leaves no countdown pending, emits no idle() and
\* leaves Status Active; and for as long as the task counts as active neither the
\* idle flag nor Status says Idle.
ResumedCancelsCountdown ==
    /\ (step \in ResumedSteps /\ Emits("active")) =>
           /\ idleTimer = NoTimer
           /\ currentStatus = "active"
           /\ ~isIdle
           /\ ~Emits("idle")
    /\ isTaskActive => ~isIdle /\ currentStatus # "idle"

\* a resumed signal has just cancelled a countdown that a finished signal had started
ResumedWhileWaiting ==
    /\ step \in ResumedSteps
    /\ Emits("active")
    /\ prevStatus = "waiting"
    /\ idleTimer = NoTimer

\* C3: pause() from a non-paused state followed immediately by resume() leaves Status
\* as it was before pause().
PauseResumeRoundTrip ==
    [][(step = "pause" /\ Emits("paused") /\ step' = "resume")
          => currentStatus' = prevStatus]_vars

\* C4: updateConfig that turns enabled off leaves Status Active and no countdown
\* pending.
DisableForcesActive ==
    [][(step' = "updateConfig" /\ config.enabled /\ ~config'.enabled)
          => currentStatus' = "active" /\ idleTimer' = NoTimer]_vars

\* C5: a presence notification changes nothing and emits nothing when enabled is
\* false or the method is events, an event notification changes nothing and emits
\* nothing when enabled is false or the method is button, and under every other
\* configuration (read at the call) the notification takes effect.
AdapterGating ==
    [][/\ (step' \in ButtonSteps /\ (~config.enabled \/ config.detectionMethod = "events"))
            => UNCHANGED progVars /\ emitted' = <<>>
       /\ (step' \in EventSteps /\ (~config.enabled \/ config.detectionMethod = "button"))
            => UNCHANGED progVars /\ emitted' = <<>>
       /\ (step' \in FinishedSteps /\ config.enabled
             /\ \/ config.detectionMethod \in {"auto", "hybrid"}
                \/ step' = "notifyButtonVisible" /\ config.detectionMethod = "button"
                \/ step' = "notifyTaskCompletedOrMessageSent" /\ config.detectionMethod = "events")
            => /\ ~isTaskActive'
               /\ currentStatus' = "waiting"
               /\ idleTimer' = <<config.idleTimeoutMs>>
       /\ (step' \in ResumedSteps /\ config.enabled
             /\ \/ config.detectionMethod \in {"auto", "hybrid"}
                \/ step' = "notifyButtonHidden" /\ config.detectionMethod = "button"
                \/ step' = "notifyTaskStarted" /\ config.detectionMethod = "events")
            => /\ isTaskActive'
               /\ ~isIdle'
               /\ currentStatus' = "active"
               /\ idleTimer' = NoTimer
               /\ Count("active", emitted') = 1
      ]_vars

\* a presence notification has just been ignored under the events method while a
\* countdown started by the event adapter is pending
IgnoredPresenceSignal ==
    /\ step \in ButtonSteps
    /\ config.enabled
    /\ config.detectionMethod = "events"
    /\ currentStatus = "waiting"
    /\ idleTimer # NoTimer
    /\ emitted = <<>>

\* the hybrid scenario: from Status Active, not paused, the presence adapter reports
\* finished, the event adapter reports finished strictly later and strictly before the
\* timeout, nothing else happens, and the countdown has just fired
HybridScenario ==
    /\ QuietTimeout
    /\ config.detectionMethod = "hybrid"
    /\ cycle[1].from = "active"
    /\ cycle[1].count = 2
    /\ cycle[1].first = "button"
    /\ cycle[1].last = "events"
    /\ 0 < cycle[1].lastAt
    /\ cycle[1].lastAt < config.idleTimeoutMs

FinishedWhileWaitingIsQuiet ==
    [][(/\ currentStatus = "waiting"
        /\ config.enabled
        /\ \/ step' = "notifyButtonVisible" /\ shouldUseButtonDetection
           \/ step' = "notifyTaskCompletedOrMessageSent" /\ shouldUseEventDetection)
          => /\ currentStatus' = "waiting"
             /\ emitted' = <<>>
             /\ idleTimer' = <<config.idleTimeoutMs>>
             /\ UNCHANGED <<config, workspacePath, isIdle, isTaskActive, isPaused,
                            pausedState, folder, runs>>
      ]_vars

\* a second finished signal from the other adapter has just restarted a countdown
\* that had already run for some time
RepeatedFinishedWhileWaiting ==
    /\ step \in FinishedSteps
    /\ prevStatus = "waiting"
    /\ currentStatus = "waiting"
    /\ cycle # <<>>
    /\ cycle[1].count >= 2
    /\ cycle[1].first # cycle[1].last
    /\ cycle[1].lastAt > 0
    /\ emitted = <<>>

\* C8: over any sequence of finished signals, timer firings and triggerIdle() calls
\* (the counts restart at a resumed signal, user activity, pause, resume or a
\* configuration update) idle() is emitted at most once and the idle notification is
\* shown at most once.
IdleFiresAtMostOnce ==
    idleCount <= 1 /\ noticeCount <= 1

\* idle() and the notification have been emitted once, and a later countdown started
\* by a finished signal has just fired without emitting them again
SecondTimeoutSuppressed ==
    /\ QuietTimeout
    /\ idleCount = 1
    /\ noticeCount = 1
    /\ emitted = <<>>

\* C9: autoPromptReady is never emitted while the service is paused.
NoPromptWhilePaused ==
    ~(isPaused /\ Emits("autoPromptReady"))

\* C10: resume() restoring a snapshot captured while Idle, with the auto-prompt folder
\* and the workspace set, sets Status to Idle, emits idle() once and starts one run
\* of processAutoPromptFolder.
ResumeIdleReingests ==
    [][(/\ step' = "resume"
        /\ isPaused
        /\ pausedState # NoState
        /\ pausedState[1].isIdle
        /\ config.autoPromptFolder # ""
        /\ workspacePath # NoPath)
          => /\ currentStatus' = "idle"
             /\ Count("idle", emitted') = 1
             /\ BagCardinality(runs') = BagCardinality(runs) + 1
      ]_vars

\* the number of suspended runs of processAutoPromptFolder
Running == BagCardinality(runs)

\* C11: a run that finds the folder missing creates the folder and, in it, the one
\* file README.txt, and returns without emitting autoPromptReady; a run begun at an
\* Idle transition when the folder can be listed and holds a readable .txt file with
\* non-whitespace content ends by emitting autoPromptReady.
BootstrapThenIngest ==
    [][/\ (step' = "ingestAccess" /\ ~folder.exists)
            => /\ \E r \in BagToSet(runs) :
                     r.pc = "access" /\ runs' = Continue(r, [r EXCEPT !.pc = "mkdir"])
               /\ emitted' = <<>>
               /\ folder' = folder
       /\ (step' = "ingestMkdir" /\ folder.writable)
            => /\ folder'.exists
               /\ folder'.files = folder.files
               /\ emitted' = <<>>
       /\ step' = "ingestWriteFile"
            => /\ DOMAIN folder'.files = DOMAIN folder.files \cup {ReadmeName}
               /\ \A f \in DOMAIN folder.files \ {ReadmeName} :
                     folder'.files[f] = folder.files[f]
               /\ folder'.files[ReadmeName].content = ReadmeContent
               /\ emitted' = <<>>
               /\ BagCardinality(runs') = Running - 1
       /\ (Emits("idle")' /\ config.autoPromptFolder # "" /\ workspacePath # NoPath)
            => \E r \in BagToSet(runs') :
                  /\ runs' = runs (+) SetToBag({r})
                  /\ r.pc = "access"
                  /\ r.fed = Feeds(folder)
       /\ (\E r \in BagToSet(runs) : r.fed /\ runs' = Return(r))
            => Emits("autoPromptReady")'
      ]_vars

\* the folder was missing and has been created with its README.txt, the user has
\* added a.txt, and a later run has just emitted a prompt holding the content of a.txt
PromptAfterBootstrap ==
    /\ step = "ingestReadFile"
    /\ Emits("autoPromptReady")
    /\ ReadmeName \in DOMAIN folder.files
    /\ TxtFile("a") \in DOMAIN folder.files
    /\ \E i \in DOMAIN lastPrompt : lastPrompt[i] = [name |-> TxtFile("a")]

\* the folder holds file, it can be read and its content is not only whitespace
Contributes(file) ==
    /\ file \in DOMAIN folder.files
    /\ folder.files[file].readable
    /\ folder.files[file].content \notin Blank

\* the .txt names of the folder
TextNames == {f \in DOMAIN folder.files : endsWithTxt(f)}

\* prompt is made of one section per file of kept, in that order, each the header
\* naming the file followed by the file's content, with one blank line between two
\* sections and none before the first or after the last
Composed(prompt, kept) ==
    /\ Len(prompt) = 5 * Len(kept) - 1
    /\ \A k \in DOMAIN kept :
          /\ SubSeq(prompt, 5 * k - 4, 5 * k - 1)
                = <<[lit |-> "### Content from "], [name |-> kept[k]],
                    [lit |-> ":\n"], [text |-> folder.files[kept[k]].content]>>
          /\ k < Len(kept) => prompt[5 * k] = [lit |-> "\n\n"]

\* C12: a run lists exactly the .txt files of the folder, each once; when it ends, the
\* prompt it emits is one section per listed file that is readable and has
\* non-whitespace content, header then content, joined by one blank line; a run
\* left with no section emits nothing.
PromptComposition ==
    [][/\ (step' = "ingestReaddir" /\ folder.listable)
            => \A r \in BagToSet(runs') :
                  (r.pc = "readFile" /\ r \notin BagToSet(runs))
                     => /\ {r.textFiles[k] : k \in DOMAIN r.textFiles} = TextNames
                        /\ Len(r.textFiles) = Cardinality(TextNames)
       /\ (step' = "ingestReaddir" /\ folder.listable /\ TextNames = {})
            => BagCardinality(runs') = Running - 1
       /\ step' \in {"ingestReaddir", "ingestReadFile"}
            => \A r \in BagToSet(runs) :
                  (r.pc = "readFile" /\ runs' = Return(r))
                     => LET kept == SelectSeq(r.textFiles, Contributes)
                        IN  IF kept = <<>>
                            THEN emitted' = <<>>
                            ELSE /\ emitted' = <<Ev("autoPromptReady")>>
                                 /\ Composed(lastPrompt', kept)
      ]_vars

\* a prompt of two sections has just been emitted from a folder that also holds
\* notes.md
TwoSectionsJoined ==
    /\ step = "ingestReadFile"
    /\ Emits("autoPromptReady")
    /\ Len(lastPrompt) = 9
    /\ NotesFile \in DOMAIN folder.files

\* the file stems of the model in lexicographic (code unit) order
StemOrder == <<"README", "a", "b", "notes">>
Rank(file) == CHOOSE i \in DOMAIN StemOrder : StemOrder[i] = file.stem

\* the file names of the section headers of the latest prompt, in order
PromptNames == [k \in 1..((Len(lastPrompt) + 1) \div 5) |-> lastPrompt[5 * k - 3].name]

\* C13: the sections of an emitted prompt appear in lexicographic order of file name,
\* whatever order the directory listing returned.
SectionsInNameOrder ==
    Emits("autoPromptReady")
        => \A j, k \in DOMAIN PromptNames :
              j < k => Rank(PromptNames[j]) < Rank(PromptNames[k])

\* the handler that has just run is a finished signal its adapter accepted
AcceptedFinished ==
    /\ config.enabled
    /\ \/ step' = "notifyButtonVisible" /\ shouldUseButtonDetection
       \/ step' = "notifyTaskCompletedOrMessageSent" /\ shouldUseEventDetection

\* the handler that has just run cancels the countdown
Cancelling ==
    \/ step' = "notifyButtonHidden" /\ config.enabled /\ shouldUseButtonDetection
    \/ step' = "notifyTaskStarted" /\ config.enabled /\ shouldUseEventDetection
    \/ step' = "notifyUserActivity" /\ config.enabled
    \/ step' = "pause" /\ ~isPaused
    \/ step' = "updateConfig" /\ ~config'.enabled

\* C14: at most one countdown is scheduled at any time; starting one leaves only the
\* new one scheduled, at the full timeout; a cancelling operation leaves none
\* scheduled, so a cancelled countdown cannot fire, and leaves none when none was
\* pending; the countdown that fires is the one this.idleTimer refers to, and having
\* fired it is no longer scheduled.
OneCountdown ==
    [][/\ strays' = EmptyBag
       /\ Len(idleTimer') <= 1
       /\ AcceptedFinished => idleTimer' = <<config.idleTimeoutMs>>
       /\ Cancelling => idleTimer' = NoTimer
       /\ step' = "timerFire" => idleTimer = <<0>> /\ idleTimer' = NoTimer
       /\ idleTimer' # NoTimer /\ idleTimer' # idleTimer
            => \/ idleTimer' = <<config'.idleTimeoutMs>>
               \/ step' = "tick" /\ idleTimer # NoTimer /\ idleTimer' = <<idleTimer[1] - 1>>
      ]_vars

\* a finished signal has just restarted a countdown that had already run for a while
CountdownRestarted ==
    /\ step \in FinishedSteps
    /\ cycle # <<>>
    /\ cycle[1].count >= 2
    /\ elapsed > 0
    /\ idleTimer = <<config.idleTimeoutMs>>

\* C15: a handler emits statusChanged exactly when it changes Status, once, carrying
\* the new Status.
StatusChangedIffChanged ==
    [][/\ Count("statusChanged", emitted') = (IF currentStatus' # currentStatus THEN 1 ELSE 0)
       /\ \A i \in DOMAIN emitted' :
             emitted'[i].ev = "statusChanged" => emitted'[i].arg = currentStatus'
      ]_vars

\* a handler has just changed Status and emitted statusChanged with the new value
StatusChangeAnnounced ==
    /\ currentStatus # prevStatus
    /\ StatusChanged(currentStatus) \in {emitted[i] : i \in DOMAIN emitted}

\* C16: pause() while paused and resume() while not paused change nothing (Status,
\* flags, snapshot, countdown, configuration) and emit nothing.
RedundantPauseResume ==
    [][((step' = "pause" /\ isPaused) \/ (step' = "resume" /\ ~isPaused))
          => /\ UNCHANGED progVars
             /\ emitted' = <<>>
      ]_vars

\* pause() has just been called on a paused service that holds a snapshot
PausedTwice ==
    /\ step = "pause"
    /\ isPaused
    /\ pausedState # NoState
    /\ emitted = <<>>

\* C17: every call of notifyUserActivity(), whatever the detection method and the
\* Status, leaves the idle flag clear and no countdown scheduled.
UserActivityAlwaysResets ==
    [][step' = "notifyUserActivity"
          => /\ ~isIdle'
             /\ idleTimer' = NoTimer
             /\ strays' = EmptyBag
      ]_vars

\* C18: the delay of every countdown started by an accepted finished signal lies in
\* the range 1000 to 300000 ms, whatever idleTimeoutMs the constructor or
\* updateConfig was given.
CountdownDelayInRange ==
    [][AcceptedFinished
          => /\ idleTimer' # NoTimer
             /\ idleTimer'[1] \in MinIdleTimeout..MaxIdleTimeout
      ]_vars

IngestSteps == {"ingestAccess", "ingestMkdir", "ingestWriteFile", "ingestReaddir",
                "ingestReadFile"}

\* run r of the bag has just moved on or returned
Stepped(r) == CopiesIn(r, runs') < CopiesIn(r, runs)

\* C19: no step of a run changes the configuration, the flags, the snapshot, Status
\* or the countdown, or emits anything but autoPromptReady; a failed fs.mkdir or
\* fs.readdir ends the run with nothing emitted; a failed read leaves the sections
\* gathered so far as they are and the run goes on to the next file or, after the
\* last, emits what it has gathered; a run always has a next step until it returns.
IngestionFailuresContained ==
    [][/\ step' \in IngestSteps
            => /\ UNCHANGED <<config, workspacePath, isIdle, isTaskActive, isPaused,
                              pausedState, currentStatus, idleTimer, strays>>
               /\ \A i \in DOMAIN emitted' : emitted'[i].ev = "autoPromptReady"
               /\ BagCardinality(runs') <= Running
       /\ (step' = "ingestMkdir" /\ ~folder.writable)
            => /\ BagCardinality(runs') = Running - 1
               /\ emitted' = <<>>
               /\ folder' = folder
       /\ (step' = "ingestReaddir" /\ ~folder.listable)
            => /\ BagCardinality(runs') = Running - 1
               /\ emitted' = <<>>
       /\ step' = "ingestReadFile"
            => \A r \in BagToSet(runs) :
                  (/\ r.pc = "readFile"
                   /\ Stepped(r)
                   /\ ~folder.files[r.textFiles[r.done + 1]].readable)
                     => IF r.done + 1 < Len(r.textFiles)
                        THEN /\ runs' = Continue(r, [r EXCEPT !.done = @ + 1])
                             /\ emitted' = <<>>
                        ELSE /\ runs' = Return(r)
                             /\ IF r.fileContents = <<>>
                                THEN emitted' = <<>>
                                ELSE /\ emitted' = <<Ev("autoPromptReady")>>
                                     /\ lastPrompt' = join(r.fileContents, BlankLine)
       /\ \A r \in BagToSet(runs') :
             /\ r.pc \in {"access", "mkdir", "writeFile", "readdir", "readFile"}
             /\ r.pc = "readFile" => r.done < Len(r.textFiles)
      ]_vars

\* a.txt cannot be read and a prompt holding the content of b.txt has just been
\* emitted
PromptDespiteFailedRead ==
    /\ step = "ingestReadFile"
    /\ Emits("autoPromptReady")
    /\ TxtFile("a") \in DOMAIN folder.files
    /\ ~folder.files[TxtFile("a")].readable
    /\ \E i \in DOMAIN lastPrompt : lastPrompt[i] = [name |-> TxtFile("b")]

\* the folder setting is empty or no workspace path is set
Unconfigured == config.autoPromptFolder = "" \/ workspacePath = NoPath

\* C20: with the folder setting empty or no workspace path, a countdown callback or
\* triggerIdle() that finds the idle and task-active flags clear sets Status to Idle
\* and emits idle() once, and starts no run; no step of a run (no folder creation,
\* listing, read or autoPromptReady) ever happens.
IdleWithoutFolder ==
    [][Unconfigured
          => /\ (step' \in {"timerFire", "triggerIdle"} /\ ~isIdle /\ ~isTaskActive)
                  => /\ currentStatus' = "idle"
                     /\ isIdle'
                     /\ Count("idle", emitted') = 1
                     /\ runs' = runs
                     /\ folder' = folder
             /\ step' \notin IngestSteps
             /\ ~Emits("autoPromptReady")'
             /\ runs' = EmptyBag
             /\ folder'.exists = folder.exists
      ]_vars

\* with the folder setting empty, a countdown has just fired and set Status to Idle
IdleNoFolderSetting ==
    /\ step = "timerFire"
    /\ config.autoPromptFolder = ""
    /\ workspacePath # NoPath
    /\ currentStatus = "idle"
    /\ Emits("idle")
    /\ runs = EmptyBag

\* C21: notifyUserActivity() called while Status is Waiting or Idle sets Status to
\* Active and emits statusChanged(active).
UserActivityMakesActive ==
    [][(step' = "notifyUserActivity" /\ currentStatus \in {"waiting", "idle"})
          => /\ currentStatus' = "active"
             /\ Count("statusChanged", emitted') = 1
      ]_vars

\* C22: a countdown callback or triggerIdle() that runs while the task-active flag is
\* set leaves Status and the idle flag as they are, emits nothing, starts no run of
\* processAutoPromptFolder and starts or cancels no countdown (the countdown whose
\* callback ran is no longer scheduled).
FireWhileActiveIsNoOp ==
    [][(step' \in {"timerFire", "triggerIdle"} /\ isTaskActive)
          => /\ currentStatus' = currentStatus
             /\ isIdle' = isIdle
             /\ isTaskActive'
             /\ emitted' = <<>>
             /\ runs' = runs
             /\ folder' = folder
             /\ strays' = strays
             /\ idleTimer' = (IF step' = "timerFire" THEN NoTimer ELSE idleTimer)
      ]_vars

\* a countdown left pending across resume() has just fired while the task-active
\* flag is set, with the folder and the workspace configured
FiredWhileTaskActive ==
    /\ step = "timerFire"
    /\ isTaskActive
    /\ ~isIdle
    /\ ~isPaused
    /\ config.autoPromptFolder # ""
    /\ workspacePath # NoPath
    /\ emitted = <<>>

\* C23: whenever Status is Waiting a countdown is pending.
WaitingHasCountdown ==
    currentStatus = "waiting" => idleTimer # NoTimer

\* C24: a countdown is pending only while Status is Waiting.
CountdownOnlyWhileWaiting ==
    idleTimer # NoTimer => currentStatus = "waiting"

\* C25: an accepted finished signal received while Status is not Paused sets Status
\* to Waiting and leaves exactly one countdown scheduled, of the full
\* idleTimeoutMs; a countdown callback makes an Idle transition no earlier than
\* idleTimeoutMs after the latest accepted finished signal.
LatestSignalWins ==
    [][/\ (AcceptedFinished /\ currentStatus # "paused")
            => /\ currentStatus' = "waiting"
               /\ idleTimer' = <<config.idleTimeoutMs>>
               /\ strays' = EmptyBag
       /\ (step' = "timerFire" /\ Emits("idle")')
            => since >= config.idleTimeoutMs
      ]_vars

\* a countdown restarted by a second finished signal has just fired and made the
\* Idle transition, a full timeout after that signal and later than a full timeout
\* after the first
IdleAfterLatestSignal ==
    /\ QuietTimeout
    /\ Emits("idle")
    /\ cycle[1].count >= 2
    /\ since = config.idleTimeoutMs
    /\ elapsed > since

\* C26: resume() restoring a snapshot that pause() took while Status was Waiting sets
\* Status to Waiting and leaves exactly one countdown scheduled, of the full
\* idleTimeoutMs.
ResumeWaitingRestartsCountdown ==
    [][(/\ step' = "resume"
        /\ isPaused
        /\ pausedState # NoState
        /\ pausedState[1].status = "waiting")
          => /\ currentStatus' = "waiting"
             /\ idleTimer' = <<config.idleTimeoutMs>>
             /\ strays' = EmptyBag
      ]_vars

\* C27: under the hybrid or auto method, a resumed signal that follows the resumed
\* signal of the other adapter, Status being Active, changes no state and emits
\* nothing.
LateResumedIsNoOp ==
    [][(/\ config.enabled
        /\ config.detectionMethod \in {"hybrid", "auto"}
        /\ step \in ResumedSteps
        /\ step' \in ResumedSteps
        /\ step' # step
        /\ currentStatus = "active")
          => /\ UNCHANGED progVars
             /\ emitted' = <<>>
      ]_vars

IdleTransitionStartsOneRun ==
    [][/\ (currentStatus # "idle" /\ currentStatus' = "idle" /\ ~Unconfigured)
            => BagCardinality(runs') = Running + 1
       /\ BagCardinality(runs') > Running
            => currentStatus # "idle" /\ currentStatus' = "idle"
       /\ Count("autoPromptReady", emitted') <= 1
      ]_vars

\* the file names of the section headers of prompt
NamesOf(prompt) == {prompt[i].name : i \in {j \in DOMAIN prompt : j % 5 = 2}}

\* the files of the folder that contribute a section
Contributors == {f \in TextNames : Contributes(f)}

\* C30: no step of a run that found the folder existing changes the folder; and two runs
\* that end one after the other, each having composed its prompt from all the
\* contributing files of the same folder, emit the same prompt.
IngestionIsIdempotent ==
    [][/\ step' \in {"ingestAccess", "ingestReaddir", "ingestReadFile"} => folder' = folder
       /\ (/\ step = "ingestReadFile" /\ Emits("autoPromptReady")
           /\ step' = "ingestReadFile" /\ Emits("autoPromptReady")'
           /\ NamesOf(lastPrompt) = Contributors
           /\ NamesOf(lastPrompt') = Contributors)
            => lastPrompt' = lastPrompt
      ]_vars

\* the sub-state the flags of a snapshot imply
Implied(snapshot) ==
    IF snapshot.isIdle THEN "idle"
    ELSE IF ~snapshot.isTaskActive THEN "waiting"
    ELSE "active"

\* C32: pause() captures the idle and task-active flags, nothing but resume()
\* touches the snapshot while the service is paused, and resume() restores
\* exactly the captured flags, sets Status to the sub-state they imply and
\* discards the snapshot, whatever has happened in between.
ResumeRestoresSnapshot ==
    [][/\ (step' = "pause" /\ ~isPaused) =>
             /\ pausedState' # NoState
             /\ pausedState'[1].isIdle = isIdle
             /\ pausedState'[1].isTaskActive = isTaskActive
       /\ (isPaused /\ step' # "resume") => pausedState' = pausedState
       /\ (step' = "resume" /\ isPaused) =>
             /\ pausedState # NoState
             /\ isIdle' = pausedState[1].isIdle
             /\ isTaskActive' = pausedState[1].isTaskActive
             /\ currentStatus' = Implied(pausedState[1])
             /\ pausedState' = NoState
             /\ ~isPaused'
      ]_vars

\* resume() has restored an active snapshot although a finished signal received
\* while paused had cleared the task-active flag and started a countdown
RestoredOverSignals ==
    /\ step = "resume" /\ prevStatus = "waiting"
    /\ isTaskActive /\ currentStatus = "active"
    /\ idleTimer # NoTimer

\* C33: Status is Paused exactly while the service is paused: no signal, timer
\* firing, triggerIdle or configuration update moves Status out of Paused.
PausedStatusAgrees ==
    (currentStatus = "paused") <=> isPaused

\* C35: while enabled is false before and after a call of a notify method,
\* triggerIdle, pause() or resume(), the call starts no countdown, emits neither
\* idle() nor autoPromptReady and does not move Status to Waiting or Idle.
DisabledIsInert ==
    [][(/\ ~config.enabled
        /\ step' \in FinishedSteps \cup ResumedSteps
                      \cup {"notifyUserActivity", "triggerIdle", "pause", "resume"})
        => /\ idleTimer' \in {NoTimer, idleTimer}
           /\ strays' = strays
           /\ ~Emits("idle")' /\ ~Emits("autoPromptReady")'
           /\ currentStatus' \in {"waiting", "idle"} => currentStatus' = currentStatus
      ]_vars

\* C36: whenever the idle flag is set, Status is Idle or Paused.
IdleFlagMeansIdle ==
    isIdle => currentStatus \in {"idle", "paused"}

\* C40: a snapshot of the flags exists exactly while the service is paused, so
\* resume() on a paused service always finds one.
SnapshotIffPaused ==
    isPaused <=> pausedState # NoState

\* a countdown has fired on a paused service, which still holds its snapshot
SnapshotSurvivesFiring ==
    /\ step = "timerFire"
    /\ isPaused /\ pausedState # NoState

\* C37: the usage note the bootstrap writes is no instruction resource: no
\* emitted prompt has a section of the note, so an Idle transition over a folder
\* that holds nothing but the note emits no autoPromptReady.
NoteIsNoResource ==
    Emits("autoPromptReady") =>
        /\ ReadmeName \notin NamesOf(lastPrompt)
        /\ TextNames # {ReadmeName}

\* C38: at most one ingestion run is in flight at any time.
OneRunInFlight ==
    BagCardinality(runs) <= 1

\* C34: while work is in progress, that is while the latest accepted adapter
\* signal is a resumed one and no disabling has reset the flags since, Status is
\* not Idle and no idle() is emitted, also across pause() and resume().
NoIdleWhileWorking ==
    working => (currentStatus # "idle" /\ ~Emits("idle"))

\* C31: a countdown firing that makes the service idle sets Status to Idle and
\* emits statusChanged(idle), then idle(), then the notification exactly if
\* enableNotifications is set, and then invokes processAutoPromptFolder, which
\* is left at its first await: the autoPromptReady of that run comes in a later
\* step, never before idle().
IdleEffectsInOrder ==
    [][(step' = "timerFire" /\ Emits("idle")') =>
          /\ currentStatus' = "idle"
          /\ emitted' = (IF currentStatus # "idle"
                         THEN <<StatusChanged("idle")>> ELSE <<>>)
                        \o <<Ev("idle")>>
                        \o (IF config.enableNotifications
                            THEN <<Ev("showIdleNotification")>> ELSE <<>>)
          /\ ~Unconfigured /\ ~isPaused =>
                \E r \in BagToSet(runs') :
                    /\ r.pc = "access"
                    /\ runs' = runs (+) SetToBag({r})
          /\ lastPrompt' = <<>>
      ]_vars

\* a countdown has fired with notifications enabled and a folder configured
IdleWithNotificationAndRun ==
    /\ step = "timerFire"
    /\ emitted = <<StatusChanged("idle"), Ev("idle"), Ev("showIdleNotification")>>
    /\ \E r \in BagToSet(runs) : r.pc = "access"

\* C39: a disposed object has no countdown and no listener, so nothing it emits
\* afterwards is received, the autoPromptReady of a run left in flight included;
\* dispose() empties the slot, and the next getInstance with a configuration
\* constructs a new object with Status Active and no listener; while the slot
\* is filled, getInstance changes nothing, whatever configuration is passed.
DisposeEndsService ==
    [][/\ listeners' \subseteq ({instance'} \ {0})
       /\ instance' = 0 => (idleTimer' = NoTimer /\ strays' = EmptyBag)
       /\ step' = "dispose" => instance' = 0
       /\ (step' = "getInstance(config)" /\ instance = 0) =>
             /\ instance' = created' /\ created' = created + 1
             /\ currentStatus' = "active"
             /\ ~isIdle' /\ ~isTaskActive' /\ ~isPaused'
             /\ idleTimer' = NoTimer
             /\ config' \in LifeConfigs
       /\ (step' \in {"getInstance()", "getInstance(config)"} /\ instance # 0) =>
             UNCHANGED <<progVars, lifeVars>>
      ]_vars

\* a run left in flight by a disposed object emits autoPromptReady while the
\* slot is empty
PromptAfterDispose ==
    /\ instance = 0
    /\ step = "ingestReadFile"
    /\ Emits("autoPromptReady")

====
